---- MODULE Spec2Model ----
(***************************************************************************)
(* Model of the breast-cancer diagnosis service (src/api/app.py): the      *)
(* start-up artifact load, the health check GET / and the prediction       *)
(* endpoint POST /predict, served by concurrent workers that share the     *)
(* module globals model, scaler, model_metadata and model_loaded.          *)
(*                                                                         *)
(* Abstractions.  A JSON value is a tagged record [t, v].  A feature is    *)
(* represented by its class: "fin" (finite number), "nan", "inf", "ninf",  *)
(* "numstr" (a JSON string holding a number) and "str" (any other string). *)
(* A probability is a fixed-point number in units of 10^-(RoundDigits+1).  *)
(* A message is its format string and the values put in it; the texts are  *)
(* written without accents.                                                *)
(***************************************************************************)
EXTENDS Integers, Sequences, FiniteSets, TLC

\* ------------------------------------------------------------------ bounds
MaxLen == 31

\* --------------------------------------------------------------- constants
DefaultFeatureCount == 30
RoundDigits == 4
DefaultAccuracy == "N/A"

ProbUnit == 10 * (10 ^ RoundDigits)
Dims == {DefaultFeatureCount - 1, DefaultFeatureCount}

\* --------------------------------------------------------------- JSON data
J(t, v) == [t |-> t, v |-> v]
JNull == J("null", 0)
EmptyMap == [k \in {} |-> 0]
EmptyDict == J("dict", EmptyMap)
Dict1(k, x) == J("dict", [i \in {k} |-> x])

\* Python truthiness of a parsed JSON value (`not json_data`, app.py:111).
Truthy(j) ==
    CASE j.t = "null" -> FALSE
      [] j.t = "bool" -> j.v
      [] j.t = "num"  -> j.v # 0
      [] j.t = "str"  -> j.v # ""
      [] j.t = "list" -> Len(j.v) > 0
      [] j.t = "dict" -> DOMAIN j.v # {}

\* dict.get(key, default); only a dict has the method.
HasGet(j) == j.t = "dict"
Get(j, k, default) == IF k \in DOMAIN j.v THEN j.v[k] ELSE default

Msg(text, args) == [text |-> text, args |-> args]

\* ------------------------------------------------------ exception classes
Parent(c) ==
    CASE c = "ValidationError"      -> "ValueError"
      [] c = "JSONDecodeError"      -> "ValueError"
      [] c = "ValueError"           -> "Exception"
      [] c = "FileNotFoundError"    -> "OSError"
      [] c = "OSError"              -> "Exception"
      [] c = "UnpicklingError"      -> "Exception"
      [] c = "TypeError"            -> "Exception"
      [] c = "AttributeError"       -> "Exception"
      [] c = "BadRequest"           -> "HTTPException"
      [] c = "UnsupportedMediaType" -> "HTTPException"
      [] c = "HTTPException"        -> "Exception"
      [] c = "Exception"            -> "BaseException"
      [] OTHER                      -> "BaseException"

RECURSIVE IsInstance(_, _)
IsInstance(c, cls) ==
    IF c = cls THEN TRUE
    ELSE IF c = "BaseException" THEN FALSE
    ELSE IsInstance(Parent(c), cls)

\* ---------------------------------------------------------- artifact files
NoneV == [t |-> "None", n_features_in |-> 0]
Estimator(n) == [t |-> "estimator", n_features_in |-> n]

File(state, content) == [state |-> state, content |-> content]
EstimatorFiles ==
    {File("missing", NoneV), File("corrupt", NoneV)}
        \cup {File("ok", Estimator(n)) : n \in Dims}

MetadataContents ==
    {J("list", <<1>>), EmptyDict, Dict1("accuracy", "0.9737")}
        \cup {J("dict", [k \in {"accuracy", "feature_count"} |->
                            IF k = "accuracy" THEN "0.9737" ELSE n]) : n \in Dims}
MetadataFiles ==
    {File("missing", JNull), File("corrupt", JNull)}
        \cup {File("ok", c) : c \in MetadataContents}

Disks == [model : EstimatorFiles, scaler : EstimatorFiles, metadata : MetadataFiles]

\* joblib.load(path): the exception it raises, "none" when it returns.
JoblibExc(f) ==
    CASE f.state = "missing" -> "FileNotFoundError"
      [] f.state = "corrupt" -> "UnpicklingError"
      [] OTHER               -> "none"

\* The except clauses of load_model_artifacts (app.py:52-57).
LoadCatchesOnlyNotFound(e) == IsInstance(e, "FileNotFoundError")
LoadCatches(e) == IsInstance(e, "FileNotFoundError") \/ IsInstance(e, "Exception")

Globals(m, s, md) == [model |-> m, scaler |-> s, model_metadata |-> md]

\* load_model_artifacts run on disk d from globals g: the globals it leaves,
\* the value it returns and the exception that escapes it ("none" if none).
LoadOutcome(g, ret, exc) == [g |-> g, ret |-> ret, exc |-> exc]
LoadFail(g, e) ==
    IF LoadCatches(e) THEN LoadOutcome(g, FALSE, "none")
    ELSE LoadOutcome(g, FALSE, e)

load_model_artifacts(g, d) ==
    IF JoblibExc(d.model) # "none" THEN LoadFail(g, JoblibExc(d.model))
    ELSE LET g1 == [g EXCEPT !.model = d.model.content] IN
    IF JoblibExc(d.scaler) # "none" THEN LoadFail(g1, JoblibExc(d.scaler))
    ELSE LET g2 == [g1 EXCEPT !.scaler = d.scaler.content] IN
    IF d.metadata.state = "corrupt" THEN LoadFail(g2, "JSONDecodeError")
    ELSE LET g3 == IF d.metadata.state = "ok"
                   THEN [g2 EXCEPT !.model_metadata = d.metadata.content]
                   ELSE g2 IN
    IF ~HasGet(g3.model_metadata) THEN LoadFail(g3, "AttributeError")
    ELSE LoadOutcome(g3, TRUE, "none")


\* train.py main(): the three artifacts one training run writes, all fitted
\* on the same n feature columns.
TrainedDisk(n) ==
    [model    |-> File("ok", Estimator(n)),
     scaler   |-> File("ok", Estimator(n)),
     metadata |-> File("ok", J("dict", [k \in {"accuracy", "feature_count"} |->
                                           IF k = "accuracy" THEN "0.9737" ELSE n]))]
EmptyDisk ==
    [model    |-> File("missing", NoneV),
     scaler   |-> File("missing", NoneV),
     metadata |-> File("missing", JNull)]

\* ------------------------------------------------------------ the requests
ElemKinds == {"fin", "nan", "inf", "ninf", "numstr", "str"}
Lens == {0, 3, DefaultFeatureCount - 1} \cup (DefaultFeatureCount..MaxLen)
\* A list of n features, all finite numbers except the last, of kind k.
Vec(n, k) == [i \in 1..n |-> IF i = n THEN k ELSE "fin"]
Vectors == {Vec(n, k) : n \in Lens, k \in ElemKinds}

JsonValues ==
    {Dict1("features", J("list", v)) : v \in Vectors}
        \cup {EmptyDict,
              Dict1("x", J("num", 1)),
              Dict1("features", J("str", "abc")),
              J("list", <<>>), J("list", <<1, 2>>),
              J("num", 0), J("num", 5), J("str", "abc"),
              J("bool", TRUE), JNull}

Body(kind, value) == [kind |-> kind, value |-> value]
NoBody == Body("missing", JNull)
Bodies ==
    {NoBody, Body("unparseable", JNull)} \cup {Body("json", j) : j \in JsonValues}

Resp(status, by, body) == [status |-> status, by |-> by, body |-> body]
NoResp == Resp(0, "none", [none |-> TRUE])
ErrorBody(text, args) == [error |-> Msg(text, args)]
\* The page the framework renders for an exception that leaves a view.
FrameworkResp(status) == Resp(status, "framework", [html |-> status])

\* request.get_json() (app.py:110): what it returns or raises.  Without a
\* JSON content type it returns None or raises UnsupportedMediaType,
\* according to the installed framework version; a body that is not JSON
\* raises BadRequest in every version.
Returned(j) == [exc |-> "none", value |-> j]
Raised(e) == [exc |-> e, value |-> JNull]
get_json(b) ==
    CASE b.kind = "missing"     -> {Returned(JNull), Raised("UnsupportedMediaType")}
      [] b.kind = "unparseable" -> {Raised("BadRequest")}
      [] OTHER                  -> {Returned(b.value)}

HttpStatus(e) == IF e = "BadRequest" THEN 400 ELSE 415

\* ---------------------------------------------------------- PredictionInput
Ok(v) == [exc |-> "none", value |-> v, msg |-> Msg("", <<>>), details |-> <<>>]
Exc(cls, msg, details) == [exc |-> cls, value |-> <<>>, msg |-> msg, details |-> details]

\* pydantic's float field in its default mode: numbers (NaN and the
\* infinities included) and numeric strings are accepted.
FloatOk(k) == k \in {"fin", "nan", "inf", "ninf", "numstr"}
Coerce(k) == IF k = "numstr" THEN "fin" ELSE k
BadElems(v) == {i \in 1..Len(v) : ~FloatOk(v[i])}
RECURSIVE ElemErrors(_, _)
ElemErrors(v, i) ==
    IF i > Len(v) THEN <<>>
    ELSE (IF FloatOk(v[i]) THEN <<>>
          ELSE <<[type |-> "float_parsing", loc |-> <<"features", i>>]>>)
         \o ElemErrors(v, i + 1)

\* PredictionInput(**json_data) (app.py:116).
PredictionInput(j) ==
    IF j.t # "dict"
    THEN Exc("TypeError", Msg("argument after ** must be a mapping", <<>>), <<>>)
    ELSE IF "features" \notin DOMAIN j.v
    THEN Exc("ValidationError", Msg("validation error", <<>>),
             <<[type |-> "missing", loc |-> <<"features">>]>>)
    ELSE IF j.v["features"].t # "list"
    THEN Exc("ValidationError", Msg("validation error", <<>>),
             <<[type |-> "list_type", loc |-> <<"features">>]>>)
    ELSE LET v == j.v["features"].v IN
         IF BadElems(v) # {}
         THEN Exc("ValidationError", Msg("validation error", <<>>), ElemErrors(v, 1))
         ELSE Ok([i \in 1..Len(v) |-> Coerce(v[i])])

\* np.isnan / np.isinf over the array (app.py:84).
AnyNaN(v) == \E i \in 1..Len(v) : v[i] = "nan"
AnyInf(v) == \E i \in 1..Len(v) : v[i] \in {"inf", "ninf"}

\* PredictionInput.validate_features (app.py:77-85).
validate_featuresNoLength(v, md) ==
    IF AnyNaN(v) \/ AnyInf(v)
    THEN Exc("ValueError", Msg("Features contienen valores invalidos", <<>>), <<>>)
    ELSE Ok(v)
validate_featuresValuesFirst(v, md) ==
    LET expected_count == Get(md, "feature_count", DefaultFeatureCount) IN
    IF AnyNaN(v) \/ AnyInf(v)
    THEN Exc("ValueError", Msg("Features contienen valores invalidos", <<>>), <<>>)
    ELSE IF Len(v) # expected_count
    THEN Exc("ValueError",
             Msg("Se esperaban {} features, recibidas {}", <<expected_count, Len(v)>>), <<>>)
    ELSE Ok(v)
validate_features(v, md) ==
    LET expected_count == Get(md, "feature_count", DefaultFeatureCount) IN
    IF Len(v) # expected_count
    THEN Exc("ValueError",
             Msg("Se esperaban {} features, recibidas {}", <<expected_count, Len(v)>>), <<>>)
    ELSE IF AnyNaN(v) \/ AnyInf(v)
    THEN Exc("ValueError", Msg("Features contienen valores invalidos", <<>>), <<>>)
    ELSE Ok(v)

\* scaler.transform / model.predict on a 1 x n matrix: scikit-learn checks
\* the column count against the estimator's n_features_in_ and raises
\* ValueError on a difference.
EstimatorCall(est, text, n) ==
    IF est.t # "estimator"
    THEN Exc("AttributeError", Msg("'NoneType' object has no attribute", <<>>), <<>>)
    ELSE IF n # est.n_features_in
    THEN Exc("ValueError",
             Msg(text, <<n, est.n_features_in>>), <<>>)
    ELSE Ok(n)

ScalerMismatch == "X has {} features, but StandardScaler is expecting {} features as input."
ModelMismatch == "X has {} features, but LogisticRegression is expecting {} features as input."

\* round(x, 4) on a probability held in units of 10^-(RoundDigits+1); the
\* result is in units of 10^-RoundDigits, ties going to the even digit.
Round4(x) ==
    LET q == x \div 10
        r == x % 10
    IN  IF r > 5 \/ (r = 5 /\ q % 2 = 1) THEN q + 1 ELSE q

\* The class LogisticRegression.predict returns given P(class=0) = p0.
PredictClass(p0) == IF ProbUnit - p0 > p0 THEN 1 ELSE 0
LabelSwapped(c) == IF c = 1 THEN "Benigno" ELSE "Maligno"
Label(c) == IF c = 1 THEN "Maligno" ELSE "Benigno"

Result(p0) ==
    [prediction |-> Label(PredictClass(p0)),
     confidence |-> [Benigno |-> Round4(p0), Maligno |-> Round4(ProbUnit - p0)],
     prediction_numeric |-> PredictClass(p0)]

\* The except clauses of predict (app.py:138-146), first match wins.
PredictExcept(e) ==
    IF IsInstance(e.exc, "ValidationError")
    THEN Resp(422, "handler", [error |-> Msg("Datos invalidos", <<>>), details |-> e.details])
    ELSE IF IsInstance(e.exc, "ValueError")
    THEN Resp(400, "handler", [error |-> e.msg])
    ELSE IF IsInstance(e.exc, "Exception")
    THEN Resp(500, "handler", ErrorBody("Error interno del servidor", <<>>))
    ELSE FrameworkResp(500)

Done(resp, calls, raised, from) ==
    [resp |-> resp, calls |-> calls, raised |-> raised, from |-> from, proba |-> -1]

\* The try block of predict (app.py:114-136) on parsed body j, the classifier
\* giving P(class=0) = p0: the response, the calls made in order, and the
\* exception raised with the call that raised it.
TryBlock(g, j, p0) ==
    LET inp == PredictionInput(j) IN
    IF inp.exc # "none"
    THEN Done(PredictExcept(inp), <<"PredictionInput">>, inp.exc, "PredictionInput")
    ELSE LET val == validate_features(inp.value, g.model_metadata)
             c2  == <<"PredictionInput", "validate_features">> IN
    IF val.exc # "none"
    THEN Done(PredictExcept(val), c2, val.exc, "validate_features")
    ELSE LET sc == EstimatorCall(g.scaler, ScalerMismatch, Len(inp.value))
             c3 == Append(c2, "scaler.transform") IN
    IF sc.exc # "none"
    THEN Done(PredictExcept(sc), c3, sc.exc, "scaler.transform")
    ELSE LET pr == EstimatorCall(g.model, ModelMismatch, Len(inp.value))
             c4 == Append(c3, "model.predict") IN
    IF pr.exc # "none"
    THEN Done(PredictExcept(pr), c4, pr.exc, "model.predict")
    ELSE [Done(Resp(200, "handler", Result(p0)),
               Append(c4, "model.predict_proba"), "none", "none") EXCEPT !.proba = p0]


\* health_check (app.py:91-101); a model_metadata without .get raises
\* AttributeError, which leaves the view.
health_check(g, loaded) ==
    IF ~HasGet(g.model_metadata) THEN FrameworkResp(500)
    ELSE Resp(IF loaded THEN 200 ELSE 503, "handler",
              [status         |-> IF loaded THEN "ok" ELSE "degraded",
               message        |-> "API de diagnostico de cancer de mama",
               model_loaded   |-> loaded,
               model_accuracy |-> Get(g.model_metadata, "accuracy", DefaultAccuracy)])

ProbSamples == {0, 5, 15, 49995, 50000, 50005, 99985, 99995, ProbUnit}

\* --------------------------------------------------------------- the state
VARIABLES
    disk,           \* the three artifact files
    globals,        \* the module globals model, scaler, model_metadata
    model_loaded,   \* the module global model_loaded (app.py:60)
    main,           \* the main thread: "import", "serving" or "crashed"
    pool,           \* the server's request threads
    slot            \* per thread, the request in progress

vars == <<disk, globals, model_loaded, main, pool, slot>>

Slot(pc, route, body, json, out) ==
    [pc |-> pc, route |-> route, body |-> body, json |-> json, out |-> out]
NoOut == Done(NoResp, <<>>, "none", "none")
Idle == Slot("idle", "none", NoBody, JNull, NoOut)

InitCommon ==
    /\ globals = Globals(NoneV, NoneV, EmptyDict)
    /\ model_loaded = FALSE
    /\ main = "import"

Init ==
    /\ disk \in Disks
    /\ pool = {1}
    /\ slot = [w \in pool |-> Idle]
    /\ InitCommon

InitConc ==
    /\ disk \in {EmptyDisk, TrainedDisk(DefaultFeatureCount)}
    /\ pool = {1, 2}
    /\ slot = [w \in pool |-> Idle]
    /\ InitCommon

\* ------------------------------------------------------------- the actions
\* model_loaded = load_model_artifacts() at import (app.py:60).
LoadEnabledReload == main \in {"import", "serving"}
LoadEnabled == main = "import"
Load ==
    /\ LoadEnabled
    /\ LET o == load_model_artifacts(globals, disk) IN
        /\ globals' = o.g
        /\ model_loaded' = (o.exc = "none" /\ o.ret)
        /\ main' = IF o.exc = "none" THEN "serving" ELSE "crashed"
    /\ UNCHANGED <<disk, pool, slot>>

\* A training run (train.py:76-93) replaces the artifacts on disk.
Retrain ==
    /\ \E n \in Dims : disk' = TrainedDisk(n)
    /\ disk' # disk
    /\ UNCHANGED <<globals, model_loaded, main, pool, slot>>

\* The globals a request handler leaves: health_check and predict have no
\* global statement and assign none of them.
HandlerGlobals(g) == g
HandlerLoaded(b) == b

Step(w, s) ==
    /\ slot' = [slot EXCEPT ![w] = s]
    /\ globals' = HandlerGlobals(globals)
    /\ model_loaded' = HandlerLoaded(model_loaded)
    /\ UNCHANGED <<disk, main, pool>>

Receive(w) ==
    /\ main = "serving"
    /\ slot[w].pc = "idle"
    /\ \/ Step(w, Slot("health", "GET /", NoBody, JNull, NoOut))
       \/ \E b \in Bodies : Step(w, Slot("gate", "POST /predict", b, JNull, NoOut))

HealthCheck(w) ==
    /\ slot[w].pc = "health"
    /\ Step(w, [slot[w] EXCEPT !.pc = "respond",
                  !.out = Done(health_check(globals, model_loaded), <<>>, "none", "none")])

\* app.py:106-108
Gate(w) ==
    /\ slot[w].pc = "gate"
    /\ IF ~model_loaded
       THEN Step(w, [slot[w] EXCEPT !.pc = "respond",
                !.out = Done(Resp(503, "handler", ErrorBody("Modelo no disponible", <<>>)),
                             <<>>, "none", "none")])
       ELSE Step(w, [slot[w] EXCEPT !.pc = "get_json"])

\* app.py:110-112
AfterGetJson(s, o) ==
    IF o.exc # "none"
    THEN [s EXCEPT !.pc = "respond",
            !.out = Done(FrameworkResp(HttpStatus(o.exc)), <<"get_json">>, o.exc, "get_json")]
    ELSE IF ~Truthy(o.value)
    THEN [s EXCEPT !.pc = "respond", !.json = o.value,
            !.out = Done(Resp(400, "handler", ErrorBody("No se proporcionaron datos JSON", <<>>)),
                         <<"get_json">>, "none", "none")]
    ELSE [s EXCEPT !.pc = "process", !.json = o.value]

GetJson(w) ==
    /\ slot[w].pc = "get_json"
    /\ \E o \in get_json(slot[w].body) : Step(w, AfterGetJson(slot[w], o))

\* app.py:114-146
AfterTry(s, d) ==
    [s EXCEPT !.pc = "respond",
        !.out = [d EXCEPT !.calls = <<"get_json">> \o d.calls]]

Process(w) ==
    /\ slot[w].pc = "process"
    /\ \E p0 \in ProbSamples : Step(w, AfterTry(slot[w], TryBlock(globals, slot[w].json, p0)))

\* The response is sent and the thread is free again.
Respond(w) ==
    /\ slot[w].pc = "respond"
    /\ Step(w, Idle)

Next ==
    \/ Load
    \/ Retrain
    \/ \E w \in pool : Receive(w)
    \/ \E w \in pool : HealthCheck(w)
    \/ \E w \in pool : Gate(w)
    \/ \E w \in pool : GetJson(w)
    \/ \E w \in pool : Process(w)
    \/ \E w \in pool : Respond(w)

Spec == Init /\ [][Next]_vars
SpecConc == InitConc /\ [][Next]_vars

TypeOK ==
    /\ main \in {"import", "serving", "crashed"}
    /\ model_loaded \in BOOLEAN
    /\ \A w \in pool : slot[w].pc \in {"idle", "health", "gate", "get_json", "process", "respond"}


\* ------------------------------------------------------ claim vocabulary
Served(w) == slot[w].pc = "respond"
IsPredict(w) == slot[w].route = "POST /predict"
IsHealth(w) == slot[w].route = "GET /"
RespOf(w) == slot[w].out.resp
CallsOf(w) == slot[w].out.calls
MetadataEmpty == globals.model_metadata.t = "dict" /\ DOMAIN globals.model_metadata.v = {}
Expected == Get(globals.model_metadata, "feature_count", DefaultFeatureCount)

\* The body is a JSON object whose features field is a list.
SentList(w) ==
    /\ slot[w].body.kind = "json"
    /\ slot[w].body.value.t = "dict"
    /\ "features" \in DOMAIN slot[w].body.value.v
    /\ slot[w].body.value.v["features"].t = "list"
FeaturesOf(w) == slot[w].body.value.v["features"].v
NumberList(v) == \A i \in 1..Len(v) : v[i] \in {"fin", "nan", "inf", "ninf"}
AllFinite(v) == \A i \in 1..Len(v) : v[i] = "fin"
NonFinite(v) == \E i \in 1..Len(v) : v[i] \in {"nan", "inf", "ninf"}
NoInference(w) ==
    \A i \in 1..Len(CallsOf(w)) :
        CallsOf(w)[i] \notin {"scaler.transform", "model.predict", "model.predict_proba"}
Unavailable == Resp(503, "handler", ErrorBody("Modelo no disponible", <<>>))
InternalError == Resp(500, "handler", ErrorBody("Error interno del servidor", <<>>))
CountMismatch(w) ==
    Msg("Se esperaban {} features, recibidas {}", <<Expected, Len(FeaturesOf(w))>>)

\* C1: with model_loaded false, GET / answers 503 with model_loaded=false
\* and every POST /predict answers 503 {"error": "Modelo no disponible"}
\* without reading or validating the body or calling scaler or classifier,
\* and model_loaded stays false for the rest of the process lifetime.
C1_DegradedAnswers ==
    \A w \in pool :
        (main = "serving" /\ ~model_loaded /\ Served(w)) =>
            /\ IsHealth(w) =>
                  /\ RespOf(w).by = "handler"
                  /\ RespOf(w).status = 503
                  /\ RespOf(w).body.model_loaded = FALSE
            /\ IsPredict(w) => (RespOf(w) = Unavailable /\ CallsOf(w) = <<>>)

\* C2: load_model_artifacts never raises to its caller; a classifier or
\* scaler file that is missing or does not deserialize gives loaded=false
\* with the process serving in degraded mode; classifier and scaler loaded
\* and no metadata file gives loaded=true with an empty metadata map, hence
\* expected feature count 30 and reported accuracy "N/A".
C2_LoadNeverRaises ==
    [][(main = "import" /\ main' # "import") =>
          /\ main' = "serving"
          /\ (disk.model.state # "ok" \/ disk.scaler.state # "ok") => ~model_loaded'
          /\ (disk.model.state = "ok" /\ disk.scaler.state = "ok"
                /\ disk.metadata.state = "missing") =>
                /\ model_loaded'
                /\ MetadataEmpty'
                /\ Expected' = DefaultFeatureCount
                /\ health_check(globals', model_loaded').body.model_accuracy = "N/A"]_vars

C2_Witness ==
    /\ main = "serving"
    /\ model_loaded
    /\ disk.metadata.state = "missing"
    /\ MetadataEmpty
    /\ \E w \in pool : Served(w) /\ IsHealth(w) /\ RespOf(w).body.model_accuracy = "N/A"

\* The case of C3: a served POST /predict, service loaded, whose features
\* are all finite numbers and as many as the expected feature count.
ValidVector(w) ==
    /\ main = "serving" /\ model_loaded
    /\ Served(w) /\ IsPredict(w) /\ SentList(w)
    /\ AllFinite(FeaturesOf(w))
    /\ Len(FeaturesOf(w)) = Expected

Accepts(est, n) == est.t = "estimator" /\ est.n_features_in = n

\* x, in units of 10^-RoundDigits, is p rounded to RoundDigits decimals.
IsRounded(x, p) == x \in 0..(10 ^ RoundDigits) /\ 10 * x - p \in -5..5

GoodPrediction(w) ==
    LET r == RespOf(w) IN
    /\ r.status = 200
    /\ r.by = "handler"
    /\ r.body.prediction_numeric \in {0, 1}
    /\ r.body.prediction = "Maligno" <=> r.body.prediction_numeric = 1
    /\ r.body.prediction = "Benigno" <=> r.body.prediction_numeric = 0
    /\ IsRounded(r.body.confidence.Benigno, slot[w].out.proba)
    /\ IsRounded(r.body.confidence.Maligno, ProbUnit - slot[w].out.proba)

C4_WrongLength ==
    \A w \in pool :
        (/\ main = "serving" /\ model_loaded
         /\ Served(w) /\ IsPredict(w) /\ SentList(w)
         /\ NumberList(FeaturesOf(w))
         /\ Len(FeaturesOf(w)) # Expected) =>
            /\ RespOf(w).by = "handler"
            /\ RespOf(w).status \in {400, 422}
            /\ RespOf(w).body.error = CountMismatch(w)
            /\ NoInference(w)

C4_Witness ==
    \E w \in pool :
        /\ model_loaded /\ Served(w) /\ IsPredict(w) /\ SentList(w)
        /\ FeaturesOf(w) = <<>>
        /\ RespOf(w).status = 400
        /\ RespOf(w).body.error.args = <<DefaultFeatureCount, 0>>

\* C5: service loaded, a feature vector holding NaN, +Infinity or -Infinity:
\* status 400, scaler and classifier never called; the length is checked
\* first, so a wrong length and a non-finite value together are reported as
\* the count mismatch.
C5_NonFinite ==
    \A w \in pool :
        (/\ main = "serving" /\ model_loaded
         /\ Served(w) /\ IsPredict(w) /\ SentList(w)
         /\ NumberList(FeaturesOf(w))
         /\ NonFinite(FeaturesOf(w))) =>
            /\ RespOf(w).by = "handler"
            /\ RespOf(w).status = 400
            /\ NoInference(w)
            /\ Len(FeaturesOf(w)) # Expected => RespOf(w).body.error = CountMismatch(w)
            /\ Len(FeaturesOf(w)) = Expected =>
                  RespOf(w).body.error = Msg("Features contienen valores invalidos", <<>>)

C5_Witness ==
    \E w \in pool :
        /\ model_loaded /\ Served(w) /\ IsPredict(w) /\ SentList(w)
        /\ Len(FeaturesOf(w)) = Expected + 1
        /\ FeaturesOf(w)[Len(FeaturesOf(w))] = "ninf"
        /\ RespOf(w).status = 400
        /\ RespOf(w).body.error = CountMismatch(w)

\* C6: service loaded, a body that parses as JSON and is not an object with
\* a features list of numbers is answered 422 {error: "Datos invalidos",
\* details: [...]}, never 400 or 500.
C6_SchemaError422 ==
    \A w \in pool :
        (/\ main = "serving" /\ model_loaded
         /\ Served(w) /\ IsPredict(w)
         /\ slot[w].body.kind = "json"
         /\ ~(SentList(w) /\ NumberList(FeaturesOf(w)))) =>
            /\ RespOf(w).by = "handler"
            /\ RespOf(w).status = 422
            /\ DOMAIN RespOf(w).body = {"error", "details"}
            /\ RespOf(w).body.error = Msg("Datos invalidos", <<>>)

\* C7: service loaded, a missing or unparseable body is answered 400 with a
\* body {error: string} built by the handler; every response to a POST
\* /predict has one of the statuses 200, 400, 422, 500, 503 and is built by
\* the handler, no exception leaving it.
C7_AllErrorsFormatted ==
    \A w \in pool :
        (Served(w) /\ IsPredict(w)) =>
            /\ RespOf(w).by = "handler"
            /\ RespOf(w).status \in {200, 400, 422, 500, 503}
            /\ (model_loaded /\ IsPredict(w) /\ slot[w].body.kind # "json") =>
                  (RespOf(w).status = 400 /\ DOMAIN RespOf(w).body = {"error"})

\* C8: service loaded, a validated payload on which the scaler or the
\* classifier fails is answered 500 {"error": "Error interno del
\* servidor"}, never 400 or 422, the failure's text not in the response.
C8_InferenceFailure500 ==
    \A w \in pool :
        (Served(w) /\ IsPredict(w)
            /\ slot[w].out.from \in {"scaler.transform", "model.predict"}) =>
            RespOf(w) = InternalError

\* The responses the request of thread w gets when its handler runs alone,
\* start to end, on the current globals.
AloneResps(w) ==
    IF IsHealth(w) THEN {health_check(globals, model_loaded)}
    ELSE IF ~model_loaded THEN {Unavailable}
    ELSE UNION {IF s.pc = "respond" THEN {s.out.resp}
                ELSE {TryBlock(globals, s.json, p0).resp : p0 \in ProbSamples} :
                   s \in {AfterGetJson(slot[w], o) : o \in get_json(slot[w].body)}}

\* C9: model_loaded, model, scaler and model_metadata are written only by
\* the one load at process start: no request step changes them, every
\* request interleaved with others gets a response it would get run alone,
\* and model_loaded never changes after start-up.
C9_ReadOnlyState ==
    /\ [](\A w \in pool : Served(w) => RespOf(w) \in AloneResps(w))
    /\ [][main # "import" => UNCHANGED <<globals, model_loaded>>]_vars

C9_Witness ==
    /\ pool = {1, 2}
    /\ Served(1) /\ RespOf(1).status = 200
    /\ slot[2].pc = "process"
    /\ disk = TrainedDisk(DefaultFeatureCount - 1)
    /\ Expected = DefaultFeatureCount

\* C10: model_metadata is assigned only after classifier and scaler loaded
\* and an unreadable metadata file fails the load, so model_loaded=false
\* implies an empty model_metadata and a degraded health check reports
\* "N/A"; model_loaded=true exactly when classifier and scaler loaded and
\* the metadata file was absent or parsed.
C10_MetadataOnlyWhenLoaded ==
    /\ []((main = "serving" /\ ~model_loaded) =>
            /\ MetadataEmpty
            /\ health_check(globals, model_loaded).body.model_accuracy = "N/A")
    /\ [][(main = "import" /\ main' = "serving") =>
            (model_loaded' <=> /\ disk.model.state = "ok"
                               /\ disk.scaler.state = "ok"
                               /\ disk.metadata.state \in {"missing", "ok"})]_vars

====
